---- MODULE Spec2Model ----
(***************************************************************************)
(* The Bencode decoder of serde-bencode (src/src/de.rs): the cursor, the   *)
(* primitive token parsers, the dispatch on the leading byte, the sequence *)
(* and map drivers, and the top-level from_bytes.                          *)
(*                                                                         *)
(* Bytes are their ASCII codes.  A Result is a record [k, v]: k = "Ok"     *)
(* with the value, k = "Err" with the name of the Error variant, or        *)
(* k = "Panic" with the reason when the call unwinds instead of returning. *)
(* A parser step returns [res, input]: the Result and the cursor it leaves.*)
(***************************************************************************)
EXTENDS Integers, Sequences, FiniteSets, TLC

VARIABLES buf, entry, target, input, stack, ctl, result

vars == <<buf, entry, target, input, stack, ctl, result>>

-----------------------------------------------------------------------------
(* Bytes the code names. *)
B_i == 105
B_e == 101
B_l == 108
B_d == 100
B_minus == 45
B_colon == 58
B_0 == 48
B_9 == 57
B_F == 70
B_a == 97

-----------------------------------------------------------------------------
(* Bounds of the model: the longest raw byte string, the most tokens of a  *)
(* token string, the most items of a container, the longest digit run of   *)
(* an integer literal, and the length of the tuple target.                 *)
MaxRaw == 3
MaxToks == 4
MaxItems == 4
MaxDigits == 5
TupleLen == 2

-----------------------------------------------------------------------------
(* Results and decoded values. *)
Ok(v) == [k |-> "Ok", v |-> v]
Err(e) == [k |-> "Err", v |-> e]
Panic(why) == [k |-> "Panic", v |-> why]

IsOk(r) == r.k = "Ok"
IsErr(r, e) == r.k = "Err" /\ r.v = e

IntV(n) == [k |-> "int", v |-> n]
BytesV(s) == [k |-> "bytes", v |-> s]
ListV(xs) == [k |-> "list", v |-> xs]
DictV(ps) == [k |-> "dict", v |-> ps]

Step(r, in) == [res |-> r, input |-> in]

-----------------------------------------------------------------------------
(* Numeric types the generic parsers are instantiated at.  i16 is the      *)
(* narrowest type that satisfies parse_num's bounds (From<i8> + From<u8>); *)
(* i64 is what deserialize_i64 asks for and usize what parse_byte_array    *)
(* asks for.  A digit run of the model is shorter than ten digits, so an   *)
(* i64 or usize accumulator stays below 10^9 and never leaves its range.   *)
I16Max == 2^15 - 1
I16Min == -(2^15)
I16Mod == 2^16

Fits(T, x) == IF T = "i16" THEN x >= I16Min /\ x <= I16Max ELSE TRUE

Wrap(T, x) == IF T = "i16" THEN ((x - I16Min) % I16Mod) + I16Min ELSE x

(* One arithmetic result in type T: the value when it fits; otherwise the  *)
(* build decides, a panic with overflow checks and two's complement        *)
(* wrapping without.                                                       *)
Arith(T, checks, x) ==
    IF Fits(T, x) THEN Ok(x)
    ELSE IF checks THEN Panic("overflow")
    ELSE Ok(Wrap(T, x))

-----------------------------------------------------------------------------
(* Cursor. *)
IsDigit(b) == b >= B_0 /\ b <= B_9

peek_byte(in) == IF in = <<>> THEN Err("Eof") ELSE Ok(Head(in))

next_byte(in) ==
    IF in = <<>> THEN Step(Err("Eof"), in) ELSE Step(Ok(Head(in)), Tail(in))

-----------------------------------------------------------------------------
(* Primitive parsers. *)
RECURSIVE digit_loop(_, _, _, _)
digit_loop(T, checks, int, in) ==
    IF in # <<>> /\ IsDigit(Head(in))
    THEN LET mul == Arith(T, checks, int * 10)
             add == IF IsOk(mul) THEN Arith(T, checks, mul.v + (Head(in) - B_0))
                    ELSE mul
         IN  IF IsOk(add) THEN digit_loop(T, checks, add.v, Tail(in))
             ELSE Step(add, Tail(in))
    ELSE Step(Ok(int), in)

parse_unsigned(T, checks, in) ==
    LET nb == next_byte(in)
    IN  IF ~IsOk(nb.res) THEN nb
        ELSE IF ~IsDigit(nb.res.v) THEN Step(Err("ExpectedInteger"), nb.input)
        ELSE digit_loop(T, checks, nb.res.v - B_0, nb.input)

(* parse_signed without the negation of a literal that carries a sign. *)
parse_signed_unsigned(T, checks, in) ==
    LET pk == peek_byte(in)
    IN  IF ~IsOk(pk) THEN Step(pk, in)
        ELSE parse_unsigned(T, checks,
                            IF pk.v = B_minus THEN Tail(in) ELSE in)

parse_signed(T, checks, in) ==
    LET pk == peek_byte(in)
    IN  IF ~IsOk(pk) THEN Step(pk, in)
        ELSE LET is_negative == pk.v = B_minus
                 num == parse_unsigned(T, checks,
                                       IF is_negative THEN Tail(in) ELSE in)
             IN  IF IsOk(num.res) /\ is_negative
                 THEN Step(Arith(T, checks, -num.res.v), num.input)
                 ELSE num

(* parse_num that takes a missing closing e for the end of the literal. *)
parse_num_lenient(T, checks, in) ==
    LET nb == next_byte(in)
    IN  IF ~IsOk(nb.res) THEN nb
        ELSE IF nb.res.v # B_i THEN Step(Err("ExpectedI"), nb.input)
        ELSE LET n == parse_signed(T, checks, nb.input)
                 ne == next_byte(n.input)
             IN  IF n.res.k = "Panic" THEN n
                 ELSE IF ~IsOk(ne.res) THEN ne
                 ELSE IF ne.res.v = B_e THEN Step(n.res, ne.input)
                 ELSE n

parse_num(T, checks, in) ==
    LET nb == next_byte(in)
    IN  IF ~IsOk(nb.res) THEN nb
        ELSE IF nb.res.v # B_i THEN Step(Err("ExpectedI"), nb.input)
        ELSE LET n == parse_signed(T, checks, nb.input)
                 ne == next_byte(n.input)
             IN  IF n.res.k = "Panic" THEN n
                 ELSE IF ~IsOk(ne.res) THEN ne
                 ELSE IF ne.res.v = B_e THEN Step(n.res, ne.input)
                 ELSE Step(Err("ExpectedE"), ne.input)

parse_byte_array(checks, in) ==
    LET length == parse_unsigned("usize", checks, in)
        nb == next_byte(length.input)
    IN  IF ~IsOk(length.res) THEN length
        ELSE IF ~IsOk(nb.res) THEN nb
        ELSE IF nb.res.v # B_colon THEN Step(Err("ExpectedColon"), nb.input)
        ELSE IF length.res.v > Len(nb.input)
        THEN Step(Panic("slice index out of range"), nb.input)
        ELSE Step(Ok(SubSeq(nb.input, 1, length.res.v)),
                  SubSeq(nb.input, length.res.v + 1, Len(nb.input)))

-----------------------------------------------------------------------------
(* Target types and their visitors (the external serde collaborator).      *)
(*   i64    i64                     asks deserialize_i64                   *)
(*   bytes  &[u8]                   asks deserialize_bytes                 *)
(*   str    &str                    asks deserialize_str, takes bytes      *)
(*   value  a self-describing value asks deserialize_any, takes any event  *)
(*   vec    Vec<value>              asks deserialize_seq, pulls to the end *)
(*   map    map of &[u8] to value   asks deserialize_map                   *)
(*   imap   map of i64 to i64       asks deserialize_map                   *)
(*   tuple  (value, ..., value)     asks deserialize_tuple, pulls TupleLen *)
Types == {"i64", "bytes", "str", "value", "vec", "map", "imap", "tuple"}

Method(ty) ==
    CASE ty = "i64" -> "i64"
      [] ty = "bytes" -> "bytes"
      [] ty = "str" -> "str"
      [] ty = "value" -> "any"
      [] ty = "vec" -> "seq"
      [] ty = "map" -> "map"
      [] ty = "imap" -> "map"
      [] ty = "tuple" -> "tuple"

Accepts(ty, ev) ==
    CASE ty = "value" -> TRUE
      [] ty = "i64" -> ev = "i64"
      [] ty \in {"bytes", "str"} -> ev = "bytes"
      [] ty \in {"vec", "tuple"} -> ev = "seq"
      [] ty \in {"map", "imap"} -> ev = "map"

ElemTy(ty) == "value"
KeyTy(ty) == CASE ty = "map" -> "bytes" [] ty = "imap" -> "i64" [] OTHER -> "value"
ValTy(ty) == IF ty = "imap" THEN "i64" ELSE "value"

(* The visitor of a sequence frame has all the elements it wants. *)
Full(fr) == fr.ty = "tuple" /\ Len(fr.acc) = TupleLen

-----------------------------------------------------------------------------
(* impl de::Deserializer for &mut Deserializer: the five methods the code  *)
(* writes, and the methods forward_to_deserialize_any! sends to            *)
(* deserialize_any.                                                        *)
Forwarded ==
    {"bool", "i8", "i16", "i32", "i128", "u8", "u16", "u32", "u64", "u128",
     "f32", "f64", "char", "str", "string", "byte_buf", "option", "unit",
     "unit_struct", "newtype_struct", "tuple", "tuple_struct", "struct",
     "identifier", "ignored_any", "enum"}

(* The impl with deserialize_tuple written out as a call of deserialize_seq. *)
Route_tuple_seq(m) ==
    IF m = "tuple" THEN "seq" ELSE IF m \in Forwarded THEN "any" ELSE m

Route(m) == IF m \in Forwarded THEN "any" ELSE m

(* The dispatch with the list and dictionary arms exchanged. *)
Dispatch_swapped(b) ==
    CASE b = B_i -> "i64"
      [] IsDigit(b) -> "bytes"
      [] b = B_l -> "map"
      [] b = B_d -> "seq"
      [] OTHER -> "Syntax"

Dispatch(b) ==
    CASE b = B_i -> "i64"
      [] IsDigit(b) -> "bytes"
      [] b = B_l -> "seq"
      [] b = B_d -> "map"
      [] OTHER -> "Syntax"

Call(ty) == [op |-> "call", ty |-> ty, h |-> Route(Method(ty))]
Ret(v) == [op |-> "ret", val |-> v]
Visiting == [op |-> "visit"]
Closing == [op |-> "close"]
Done == [op |-> "done"]

Frame(kind, ty) ==
    [kind |-> kind, ty |-> ty, acc |-> <<>>, phase |-> "key", key |-> <<>>]

Top == stack[Len(stack)]
Pop == SubSeq(stack, 1, Len(stack) - 1)
SetTop(fr) == [stack EXCEPT ![Len(stack)] = fr]

-----------------------------------------------------------------------------
(* Inputs. *)
RECURSIVE Concat(_)
Concat(ss) == IF ss = <<>> THEN <<>> ELSE Head(ss) \o Concat(Tail(ss))

SeqsUpTo(S, n) == UNION {[1..k -> S] : k \in 0..n}

B_1 == 49
B_2 == 50
B_3 == 51

TokI1E == <<B_i, B_1, B_e>>
Tok1A == <<B_1, B_colon, B_a>>
Tok0 == <<B_0, B_colon>>
TokNested == <<B_l>> \o Tok1A \o <<B_e>>
TokEmptyDict == <<B_d, B_e>>

RawBytes == {B_i, B_e, B_l, B_d, B_minus, B_colon, B_1, B_2, B_a}
RawInputs == SeqsUpTo(RawBytes, MaxRaw)

Tokens == {<<B_l>>, <<B_d>>, <<B_e>>, TokI1E, Tok1A}
TokInputs == {Concat(ts) : ts \in SeqsUpTo(Tokens, MaxToks)}

Items == {TokI1E, Tok1A, Tok0, TokNested, TokEmptyDict}
Closers == {<<>>, <<B_e>>, <<B_e, B_a>>}
ContInputs ==
    {<<o>> \o Concat(is) \o c :
        o \in {B_l, B_d}, is \in SeqsUpTo(Items, MaxItems), c \in Closers}

NumPrefixes == {<<>>, <<B_i>>, <<B_i, B_minus>>}
NumSuffixes == {<<>>, <<B_e>>, <<B_F>>, <<B_e, B_a>>}
NumDigits == UNION {[1..k -> {B_0, B_3}] : k \in 1..MaxDigits}
NumInputs ==
    {p \o ds \o s : p \in NumPrefixes, ds \in NumDigits, s \in NumSuffixes}

Inputs == RawInputs \cup TokInputs \cup ContInputs \cup NumInputs

-----------------------------------------------------------------------------
(* State. *)
Pending == [k |-> "Pending", v |-> "none"]

Init ==
    /\ buf \in Inputs
    /\ \/ entry = "from_bytes" /\ target \in Types
       \/ entry = "parse_num" /\ target = "i16"
    /\ input = buf
    /\ stack = <<>>
    /\ ctl = IF entry = "from_bytes" THEN Call(target) ELSE [op |-> "parser"]
    /\ result = Pending

(* The call ends: with an error that every caller passes on with `?`, or   *)
(* with a panic.                                                           *)
Finish(r) == ctl' = Done /\ result' = r

(* The visitor of type ty is handed event ev carrying value v. *)
Visit(ty, ev, v) ==
    IF Accepts(ty, ev) THEN ctl' = Ret(v) /\ UNCHANGED result
    ELSE Finish(Err("Message"))

(* parser_tests: a Deserializer built on the buffer, parse_num called. *)
ParseNum ==
    /\ ctl.op = "parser"
    /\ \E checks \in BOOLEAN :
          LET r == parse_num(target, checks, input)
          IN  input' = r.input /\ Finish(r.res)
    /\ UNCHANGED <<buf, entry, target, stack>>

DeserializeAny ==
    /\ ctl.op = "call" /\ ctl.h = "any"
    /\ LET pk == peek_byte(input)
       IN  IF ~IsOk(pk) THEN Finish(pk)
           ELSE IF Dispatch(pk.v) = "Syntax" THEN Finish(Err("Syntax"))
           ELSE ctl' = [ctl EXCEPT !.h = Dispatch(pk.v)] /\ UNCHANGED result
    /\ UNCHANGED <<buf, entry, target, input, stack>>

DeserializeI64 ==
    /\ ctl.op = "call" /\ ctl.h = "i64"
    /\ \E checks \in BOOLEAN :
          LET r == parse_num("i64", checks, input)
          IN  /\ input' = r.input
              /\ IF IsOk(r.res) THEN Visit(ctl.ty, "i64", IntV(r.res.v))
                 ELSE Finish(r.res)
    /\ UNCHANGED <<buf, entry, target, stack>>

DeserializeBytes ==
    /\ ctl.op = "call" /\ ctl.h = "bytes"
    /\ \E checks \in BOOLEAN :
          LET r == parse_byte_array(checks, input)
          IN  /\ input' = r.input
              /\ IF IsOk(r.res) THEN Visit(ctl.ty, "bytes", BytesV(r.res.v))
                 ELSE Finish(r.res)
    /\ UNCHANGED <<buf, entry, target, stack>>

(* deserialize_seq up to the call of visitor.visit_seq. *)
DeserializeSeq ==
    /\ ctl.op = "call" /\ ctl.h = "seq"
    /\ LET nb == next_byte(input)
       IN  /\ input' = nb.input
           /\ IF ~IsOk(nb.res) THEN Finish(nb.res) /\ UNCHANGED stack
              ELSE IF nb.res.v # B_l
              THEN Finish(Err("ExpectedList")) /\ UNCHANGED stack
              ELSE IF ~Accepts(ctl.ty, "seq")
              THEN Finish(Err("Message")) /\ UNCHANGED stack
              ELSE /\ stack' = Append(stack, Frame("seq", ctl.ty))
                   /\ ctl' = Visiting
                   /\ UNCHANGED result
    /\ UNCHANGED <<buf, entry, target>>

(* A pull that decodes an element without looking for the closing e. *)
next_element_seed_nopeek(ty, in) ==
    LET pk == peek_byte(in)
    IN  IF ~IsOk(pk) THEN [op |-> "fail", res |-> pk]
        ELSE [op |-> "call", ty |-> "value", h |-> "any"]

(* What a pull of the sequence driver does on cursor `in` for a visitor of *)
(* type ty: an error, "no more elements", or the decoding of one element.  *)
next_element_seed(ty, in) ==
    LET pk == peek_byte(in)
    IN  IF ~IsOk(pk) THEN [op |-> "fail", res |-> pk]
        ELSE IF pk.v = B_e THEN [op |-> "none"]
        ELSE Call(ElemTy(ty))

NextElementSeed ==
    /\ ctl.op = "visit" /\ Top.kind = "seq" /\ ~Full(Top)
    /\ LET pull == next_element_seed(Top.ty, input)
       IN  CASE pull.op = "fail" -> Finish(pull.res)
             [] pull.op = "none" ->
                  IF Top.ty = "tuple" THEN Finish(Err("Message"))
                  ELSE ctl' = Closing /\ UNCHANGED result
             [] OTHER -> ctl' = pull /\ UNCHANGED result
    /\ UNCHANGED <<buf, entry, target, input, stack>>

(* deserialize_seq after visitor.visit_seq returned its value. *)
SeqEnd ==
    /\ ctl.op = "close" \/ (ctl.op = "visit" /\ Top.kind = "seq" /\ Full(Top))
    /\ Top.kind = "seq"
    /\ LET nb == next_byte(input)
       IN  /\ input' = nb.input
           /\ IF ~IsOk(nb.res) THEN Finish(nb.res) /\ UNCHANGED stack
              ELSE IF nb.res.v # B_e
              THEN Finish(Err("ExpectedListEnd")) /\ UNCHANGED stack
              ELSE /\ ctl' = Ret(ListV(Top.acc))
                   /\ stack' = Pop
                   /\ UNCHANGED result
    /\ UNCHANGED <<buf, entry, target>>

DeserializeMap ==
    /\ ctl.op = "call" /\ ctl.h = "map"
    /\ LET nb == next_byte(input)
       IN  /\ input' = nb.input
           /\ IF ~IsOk(nb.res) THEN Finish(nb.res) /\ UNCHANGED stack
              ELSE IF nb.res.v # B_d
              THEN Finish(Err("ExpectedDict")) /\ UNCHANGED stack
              ELSE IF ~Accepts(ctl.ty, "map")
              THEN Finish(Err("Message")) /\ UNCHANGED stack
              ELSE /\ stack' = Append(stack, Frame("map", ctl.ty))
                   /\ ctl' = Visiting
                   /\ UNCHANGED result
    /\ UNCHANGED <<buf, entry, target>>

next_key_seed(ty, in) ==
    LET pk == peek_byte(in)
    IN  IF ~IsOk(pk) THEN [op |-> "fail", res |-> pk]
        ELSE IF pk.v = B_e THEN [op |-> "none"]
        ELSE Call(KeyTy(ty))

(* A value pull that, like the key pull, stops at the closing e and hands   *)
(* the visitor an empty value.                                             *)
next_value_seed_peek(ty, in) ==
    IF in # <<>> /\ Head(in) = B_e
    THEN [op |-> "ret", val |-> [k |-> "bytes", v |-> <<>>]]
    ELSE [op |-> "call", ty |-> "value", h |-> "any"]

next_value_seed(ty, in) == Call(ValTy(ty))

NextKeySeed ==
    /\ ctl.op = "visit" /\ Top.kind = "map" /\ Top.phase = "key"
    /\ LET pull == next_key_seed(Top.ty, input)
       IN  CASE pull.op = "fail" -> Finish(pull.res)
             [] pull.op = "none" -> ctl' = Closing /\ UNCHANGED result
             [] OTHER -> ctl' = pull /\ UNCHANGED result
    /\ UNCHANGED <<buf, entry, target, input, stack>>

NextValueSeed ==
    /\ ctl.op = "visit" /\ Top.kind = "map" /\ Top.phase = "value"
    /\ ctl' = next_value_seed(Top.ty, input)
    /\ UNCHANGED <<buf, entry, target, input, stack, result>>

MapEnd ==
    /\ ctl.op = "close" /\ Top.kind = "map"
    /\ LET nb == next_byte(input)
       IN  /\ input' = nb.input
           /\ IF ~IsOk(nb.res) THEN Finish(nb.res) /\ UNCHANGED stack
              ELSE IF nb.res.v # B_e
              THEN Finish(Err("ExpectedDictEnd")) /\ UNCHANGED stack
              ELSE /\ ctl' = Ret(DictV(Top.acc))
                   /\ stack' = Pop
                   /\ UNCHANGED result
    /\ UNCHANGED <<buf, entry, target>>

(* The frame of a visitor after the driver handed it the value v. *)
Deliver(fr, v) ==
    IF fr.kind = "seq" THEN [fr EXCEPT !.acc = Append(@, v)]
    ELSE IF fr.phase = "key" THEN [fr EXCEPT !.key = <<v>>, !.phase = "value"]
    ELSE [fr EXCEPT !.acc = Append(@, <<fr.key[1], v>>),
                    !.key = <<>>, !.phase = "key"]

(* seed.deserialize returned Ok inside a driver: Ok(Some(v)) or Ok(v) goes *)
(* to the visitor that pulled.                                             *)
Return ==
    /\ ctl.op = "ret" /\ stack # <<>>
    /\ stack' = SetTop(Deliver(Top, ctl.val))
    /\ ctl' = Visiting
    /\ UNCHANGED <<buf, entry, target, input, result>>

(* from_bytes without the is_empty test. *)
from_bytes_end_unchecked(in, t) == Ok(t)

(* from_bytes after T::deserialize returned Ok(t), the cursor being `in`. *)
from_bytes_end(in, t) ==
    IF in = <<>> THEN Ok(t) ELSE Err("TrailingCharacters")

FromBytesEnd ==
    /\ ctl.op = "ret" /\ stack = <<>>
    /\ Finish(from_bytes_end(input, ctl.val))
    /\ UNCHANGED <<buf, entry, target, input, stack>>

Next ==
    \/ ParseNum
    \/ DeserializeAny
    \/ DeserializeI64
    \/ DeserializeBytes
    \/ DeserializeSeq
    \/ NextElementSeed
    \/ SeqEnd
    \/ DeserializeMap
    \/ NextKeySeed
    \/ NextValueSeed
    \/ MapEnd
    \/ Return
    \/ FromBytesEnd

Spec == Init /\ [][Next]_vars

-----------------------------------------------------------------------------
(* Properties. *)

FromBytesDone == entry = "from_bytes" /\ ctl.op = "done"

(* Equality of decoded values, and of results, compared kind first. *)
RECURSIVE Same(_, _)
Same(a, b) ==
    /\ a.k = b.k
    /\ a.k = "int" \/ Len(a.v) = Len(b.v)
    /\ CASE a.k = "int" -> a.v = b.v
         [] a.k = "bytes" -> a.v = b.v
         [] a.k = "list" -> \A n \in 1..Len(a.v) : Same(a.v[n], b.v[n])
         [] a.k = "dict" ->
              \A n \in 1..Len(a.v) :
                  Same(a.v[n][1], b.v[n][1]) /\ Same(a.v[n][2], b.v[n][2])
SameList(xs, ys) == Same(ListV(xs), ListV(ys))
SameDict(ps, qs) == Same(DictV(ps), DictV(qs))
IsValue(r, v) == r.k = "Ok" /\ Same(r.v, v)
IsNumber(r, n) == r.k = "Ok" /\ r.v = n
ParseNumDone == entry = "parse_num" /\ ctl.op = "done"

(* A value is returned only for the whole buffer; the top-level return. *)
C1_OnlyWholeBuffer ==
    (entry = "from_bytes" /\ IsOk(result)) =>
        input = <<>> /\ stack = <<>> /\ ctl.op = "done"

C1_TopLevelReturn ==
    (entry = "from_bytes" /\ ctl.op = "ret" /\ stack = <<>>) =>
        /\ input' = input
        /\ ctl'.op = "done"
        /\ input = <<>> => IsValue(result', ctl.val)
        /\ input # <<>> => IsErr(result', "TrailingCharacters")

(* C1: from_bytes returns a value only with the cursor empty and no frame  *)
(* open; when T::deserialize returned a value at the top level, from_bytes *)
(* returns that value if the cursor is empty and TrailingCharacters, and   *)
(* no value, if a byte remains; the test itself consumes nothing.          *)
C1_Thm == []C1_OnlyWholeBuffer /\ [][C1_TopLevelReturn]_vars

C1_Witness ==
    /\ FromBytesDone
    /\ IsErr(result, "TrailingCharacters")
    /\ input # <<>>
    /\ stack = <<>>

(* The integer literal at the head of the buffer, read off the grammar     *)
(* "i" ["-"] 1*DIGIT "e": its sign, the end of its digit run, the number   *)
(* its digits denote by position.                                          *)
LitNeg == Len(buf) >= 2 /\ buf[2] = B_minus
LitFirst == IF LitNeg THEN 3 ELSE 2
LitLast ==
    CHOOSE j \in (LitFirst - 1)..Len(buf) :
        /\ \A n \in LitFirst..j : IsDigit(buf[n])
        /\ j = Len(buf) \/ ~IsDigit(buf[j + 1])
LitHasDigits == Len(buf) >= 1 /\ buf[1] = B_i /\ LitLast >= LitFirst
LitClosed == LitHasDigits /\ LitLast < Len(buf) /\ buf[LitLast + 1] = B_e

RECURSIVE Pow10(_)
Pow10(n) == IF n = 0 THEN 1 ELSE 10 * Pow10(n - 1)

RECURSIVE SumDigits(_, _)
SumDigits(from, to) ==
    IF from > to THEN 0
    ELSE (buf[from] - B_0) * Pow10(to - from) + SumDigits(from + 1, to)

LitMagnitude == SumDigits(LitFirst, LitLast)
LitNumber == IF LitNeg THEN -LitMagnitude ELSE LitMagnitude
LitRest == SubSeq(buf, LitLast + 2, Len(buf))

(* C2: a literal i[-]digits e whose magnitude fits the target width parses *)
(* to the number the digits denote, negated under a sign, and the cursor   *)
(* is left right after the closing e; from_bytes with an i64 target        *)
(* returns that number when the literal is the whole input.                *)
C2_Thm ==
    /\ (ParseNumDone /\ LitClosed /\ LitMagnitude <= I16Max) =>
          IsNumber(result, LitNumber) /\ input = LitRest
    /\ (entry = "from_bytes" /\ target = "i64" /\ LitClosed) =>
          /\ ctl.op = "ret" =>
                Same(ctl.val, IntV(LitNumber)) /\ input = LitRest
          /\ ctl.op = "done" =>
                /\ input = LitRest
                /\ LitRest = <<>> => IsValue(result, IntV(LitNumber))

C2_Witness ==
    /\ ParseNumDone
    /\ LitClosed
    /\ LitNeg
    /\ LitMagnitude > 9
    /\ IsNumber(result, LitNumber)
    /\ input = LitRest

(* Wire forms with the values the grammar gives them. *)
ItemPairs ==
    {<<TokI1E, IntV(1)>>,
     <<Tok1A, BytesV(<<B_a>>)>>,
     <<Tok0, BytesV(<<>>)>>,
     <<TokNested, ListV(<<BytesV(<<B_a>>)>>)>>,
     <<TokEmptyDict, DictV(<<>>)>>}
KeyPairs == {<<Tok1A, BytesV(<<B_a>>)>>, <<Tok0, BytesV(<<>>)>>}

Wires(ps) == Concat([n \in 1..Len(ps) |-> ps[n][1]])
Values(ps) == [n \in 1..Len(ps) |-> ps[n][2]]

ListCases ==
    {<<(<<B_l>> \o Wires(ps)) \o <<B_e>>, ListV(Values(ps))>> :
        ps \in SeqsUpTo(ItemPairs, MaxItems)}

EntryPairs ==
    {<<kp[1] \o vp[1], <<kp[2], vp[2]>>>> : kp \in KeyPairs, vp \in ItemPairs}
DictCases ==
    {<<(<<B_d>> \o Wires(ps)) \o <<B_e>>, DictV(Values(ps))>> :
        ps \in SeqsUpTo(EntryPairs, MaxItems \div 2)}
DanglingCases ==
    {((<<B_d>> \o Wires(ps)) \o kp[1]) \o <<B_e>> :
        ps \in SeqsUpTo(EntryPairs, (MaxItems - 1) \div 2), kp \in KeyPairs}

InSeq == ctl.op = "visit" /\ Top.kind = "seq"
InMap == ctl.op = "visit" /\ Top.kind = "map"
AtEnd == input # <<>> /\ Head(input) = B_e
AtOther == input # <<>> /\ Head(input) # B_e
NewTop == stack'[Len(stack')]

(* The elements of a list in wire order; a pull; the close of the list;   *)
(* a visitor that stopped early.                                           *)
C3_InOrder ==
    (FromBytesDone /\ buf # <<>> /\ buf[1] = B_l) =>
        \A c \in ListCases :
            (buf = c[1] /\ (target \in {"vec", "value"}
                            \/ (target = "tuple" /\ Len(c[2].v) = TupleLen)))
                => IsValue(result, c[2])

C3_Pull ==
    (InSeq /\ Top.ty # "tuple") =>
        /\ input' = input /\ stack' = stack
        /\ AtEnd => ctl'.op = "close" /\ result'.k = "Pending"
        /\ AtOther => ctl'.op = "call" /\ result'.k = "Pending"

C3_Close ==
    (ctl.op = "close" /\ Top.kind = "seq") =>
        /\ AtEnd
        /\ input' = Tail(input)
        /\ ctl'.op = "ret" /\ Same(ctl'.val, ListV(Top.acc))
        /\ stack' = Pop

C3_NotClosed ==
    (InSeq /\ Full(Top) /\ AtOther) =>
        ctl'.op = "done" /\ IsErr(result', "ExpectedListEnd")

(* C3: a list l v1 ... vk e decoded by a visitor that pulls to exhaustion  *)
(* delivers v1..vk in wire order (a tuple visitor: when k is its length);  *)
(* a pull that sees e reports "no more elements" and leaves the cursor     *)
(* alone, any other byte starts the decoding of one element; after         *)
(* exhaustion the engine consumes that e and returns the elements; a       *)
(* visitor that stopped before a byte other than e gets ExpectedListEnd.   *)
C3_Thm == []C3_InOrder /\ [][C3_Pull /\ C3_Close /\ C3_NotClosed]_vars

C3_Witness ==
    /\ FromBytesDone
    /\ target = "vec"
    /\ buf = ((<<B_l>> \o TokI1E) \o (Tok1A \o TokNested)) \o <<B_e>>
    /\ IsValue(result, ListV(<<IntV(1), BytesV(<<B_a>>),
                                ListV(<<BytesV(<<B_a>>)>>)>>))
    /\ input = <<>>

(* The pairs of a dictionary in wire order; frames hold whole pairs and at *)
(* most one pending key; the key pull, the value pull and the hand-over.   *)
C4_InOrder ==
    (FromBytesDone /\ buf # <<>> /\ buf[1] = B_d) =>
        /\ \A c \in DictCases :
              (buf = c[1] /\ target \in {"map", "value"})
                  => IsValue(result, c[2])
        /\ buf \in DanglingCases => result.k = "Err"

C4_Paired ==
    \A n \in 1..Len(stack) :
        stack[n].kind = "map" =>
            /\ \A m \in 1..Len(stack[n].acc) : Len(stack[n].acc[m]) = 2
            /\ Len(stack[n].key) = IF stack[n].phase = "value" THEN 1 ELSE 0

C4_Pull ==
    /\ (InMap /\ Top.phase = "key") =>
          /\ input' = input /\ stack' = stack
          /\ AtEnd => ctl'.op = "close" /\ result'.k = "Pending"
          /\ AtOther => ctl'.op = "call" /\ result'.k = "Pending"
    /\ (InMap /\ Top.phase = "value") =>
          input' = input /\ stack' = stack /\ ctl'.op = "call"
    /\ (ctl.op = "ret" /\ stack # <<>> /\ Top.kind = "map") =>
          /\ input' = input
          /\ Top.phase = "key" =>
                /\ NewTop.phase = "value"
                /\ SameList(NewTop.key, <<ctl.val>>)
                /\ SameDict(NewTop.acc, Top.acc)
          /\ Top.phase = "value" =>
                /\ NewTop.phase = "key"
                /\ SameDict(NewTop.acc,
                            Append(Top.acc, <<Top.key[1], ctl.val>>))

(* C4: in a dictionary every key pull that does not see e starts the       *)
(* decoding of one key, the key is followed by the decoding of exactly one *)
(* value, whatever the next byte, and the pair is recorded before the next *)
(* key pull; a key pull that sees e stops and consumes nothing; the pairs  *)
(* of d k1 v1 ... kn vn e come out in wire order; a key followed directly  *)
(* by the closing e gives an error.                                        *)
C4_Thm == [](C4_InOrder /\ C4_Paired) /\ [][C4_Pull]_vars

C4_Witness ==
    /\ FromBytesDone
    /\ target = "map"
    /\ buf = ((<<B_d>> \o Tok1A) \o (TokI1E \o Tok0)) \o (Tok1A \o <<B_e>>)
    /\ IsValue(result, DictV(<< <<BytesV(<<B_a>>), IntV(1)>>,
                                 <<BytesV(<<>>), BytesV(<<B_a>>)>> >>))

(* The methods of serde's Deserializer. *)
SerdeMethods ==
    {"any", "bool", "i8", "i16", "i32", "i64", "i128", "u8", "u16", "u32",
     "u64", "u128", "f32", "f64", "char", "str", "string", "bytes",
     "byte_buf", "option", "unit", "unit_struct", "newtype_struct", "seq",
     "tuple", "tuple_struct", "map", "struct", "enum", "identifier",
     "ignored_any"}
Direct == {"i64", "bytes", "seq", "map"}

(* One step of deserialize_any, and the forwarding of the other methods. *)
C5_Dispatch ==
    /\ \A m \in SerdeMethods \ Direct : Route(m) = "any"
    /\ (ctl.op = "call" /\ ctl.h = "any") =>
          /\ input' = input /\ stack' = stack
          /\ IF input = <<>> THEN ctl'.op = "done" /\ IsErr(result', "Eof")
             ELSE IF Head(input) \in {B_i, B_l, B_d} \/ IsDigit(Head(input))
             THEN /\ result'.k = "Pending"
                  /\ ctl'.op = "call" /\ ctl'.ty = ctl.ty
                  /\ ctl'.h = CASE Head(input) = B_i -> "i64"
                                [] Head(input) = B_l -> "seq"
                                [] Head(input) = B_d -> "map"
                                [] OTHER -> "bytes"
             ELSE ctl'.op = "done" /\ IsErr(result', "Syntax")

(* C5: every method but i64, bytes, seq and map goes to deserialize_any,   *)
(* which consumes nothing and picks the path from the next byte alone: i   *)
(* the integer path, a digit the byte-string path, l the list path, d the  *)
(* dictionary path, any other byte Syntax, no byte Eof.                    *)
C5_Thm == [][C5_Dispatch]_vars

C5_Witness ==
    /\ ctl.op = "call"
    /\ ctl.ty = "tuple"
    /\ ctl.h = "map"
    /\ input = buf
    /\ input # <<>> /\ Head(input) = B_d

LitUnclosed == LitHasDigits /\ LitLast < Len(buf) /\ buf[LitLast + 1] # B_e

IntegerDone == ParseNumDone \/ (FromBytesDone /\ target = "i64")

StrLast ==
    CHOOSE j \in 0..Len(buf) :
        /\ \A n \in 1..j : IsDigit(buf[n])
        /\ j = Len(buf) \/ ~IsDigit(buf[j + 1])
StrDeclared == SumDigits(1, StrLast)
StrShort ==
    /\ StrLast >= 1 /\ StrLast < Len(buf) /\ buf[StrLast + 1] = B_colon
    /\ StrDeclared > Len(buf) - (StrLast + 1)

(* C7: a byte string whose declared length exceeds the bytes that remain   *)
(* after the colon gives the caller a typed error, never a fault.          *)
C7_Claim ==
    (FromBytesDone /\ target \in {"bytes", "str", "value"} /\ StrShort) =>
        result.k = "Err"

(* C8: a dictionary whose first key position holds an integer, a list or a *)
(* dictionary does not decode, whatever key type the visitor asks for.     *)
C8_Claim ==
    (FromBytesDone /\ Len(buf) >= 2 /\ buf[1] = B_d
                   /\ buf[2] \in {B_i, B_l, B_d}) =>
        ~IsOk(result)

(* C9: when the byte after i, or after i-, is not a digit, the caller gets *)
(* ExpectedInteger, whatever follows, and nothing after that byte is       *)
(* consumed.                                                               *)
C9_Claim ==
    (IntegerDone /\ Len(buf) >= LitFirst /\ buf[1] = B_i
                 /\ ~IsDigit(buf[LitFirst])) =>
        /\ IsErr(result, "ExpectedInteger")
        /\ input = SubSeq(buf, LitFirst + 1, Len(buf))

(* The path the grammar gives a leading byte. *)
WirePath(b) ==
    CASE b = B_i -> "i64"
      [] b = B_l -> "seq"
      [] b = B_d -> "map"
      [] b >= B_0 /\ b <= B_9 -> "bytes"
      [] OTHER -> "none"

Parsing == entry = "from_bytes" /\ ctl.op = "call" /\ ctl.h # "any"

====
